---- MODULE Spec2Model ----
(***************************************************************************)
(* A state-machine model of dnstest.py: the DNS latency benchmark that     *)
(* sweeps every configured resolver over every configured domain, takes    *)
(* num_measurements timed resolutions per (resolver, domain) pair and      *)
(* aggregates them per domain and per resolver before plotting.            *)
(*                                                                         *)
(* Resolvers and domains are modelled by their index in dns_providers and  *)
(* domains.  A latency is a binary floating-point number, modelled as an   *)
(* integer count of the smallest representable step of a format with       *)
(* Precision significant bits (IEEE 754 binary64 has 53), rounded to       *)
(* nearest, ties to even, after every addition and division.               *)
(***************************************************************************)
EXTENDS Integers, Sequences, FiniteSets, TLC

\* ---------------------------------------------------------------- bounds
NumProviders == 2
NumDomains == 2
MaxMeasurements == 3
Precision == 4
MaxAggLen == 3

\* ------------------------------------------------------- configuration
dns_providers == 1..NumProviders
domains == 1..NumDomains
num_measurements == MaxMeasurements

\* Python's None; every latency is >= 0, so -1 is outside their range.
None == 0 - 1

TwoP == 2^Precision

\* What one resolver.resolve() call can take, by its position in the batch:
\* the first query of a batch finds the resolver's cache cold or warm, the
\* later ones find it warm.  The two values are the largest of a binade.
WarmLatency == TwoP - 2
ColdLatency == TwoP - 1
Latencies(i) == IF i = 1 THEN {WarmLatency, ColdLatency} ELSE {WarmLatency}

\* Inputs of the aggregation taken alone: one whole binade of the format.
AggSamples == (TwoP \div 2)..(TwoP - 1)

VARIABLES
    verbose,            \* args.verbose
    pc,                 \* the statement the interpreter is at
    error,              \* the uncaught exception that ended the run
    dns_server,         \* main: index of the resolver being swept
    overall_stats,      \* main: overall_stats
    main_domain_stats,  \* main: domain_stats
    domain,             \* test_domains: index of the domain being sampled
    overall_times,      \* test_domains: overall_times
    domain_stats,       \* test_domains: domain_stats
    sweep_ret,          \* value returned by test_domains
    times,              \* test_dns: times
    issued,             \* test_dns: iterations of the sampling loop begun
    dns_ret,            \* value returned by test_dns
    output,             \* lines printed to standard output, in order
    request_log,        \* resolver.resolve() calls issued, in order
    figures,            \* charts rendered by plot_results, in order
    plot_calls,         \* number of calls of plot_results
    samples,            \* input of the aggregation taken alone
    agg                 \* its result

vars == <<verbose, pc, error, dns_server, overall_stats, main_domain_stats,
          domain, overall_times, domain_stats, sweep_ret, times, issued,
          dns_ret, output, request_log, figures, plot_calls, samples, agg>>

mainVars == <<dns_server, overall_stats, main_domain_stats>>
sweepVars == <<domain, overall_times, domain_stats, sweep_ret>>
dnsVars == <<times, issued, dns_ret>>
aggVars == <<samples, agg>>

\* ------------------------------------------------- floating-point numbers
RECURSIVE UlpFrom(_, _, _)
UlpFrom(u, num, den) ==
    IF num < TwoP * u * den THEN u ELSE UlpFrom(2 * u, num, den)

\* Spacing of the representable numbers around num/den.
Ulp(num, den) == UlpFrom(1, num, den)

\* num/den rounded to the nearest representable number, ties to even.
FRound(num, den) ==
    LET u == Ulp(num, den)
        q == num \div (u * den)
        r == 2 * (num - q * u * den)
    IN  IF r < u * den THEN q * u
        ELSE IF r > u * den THEN (q + 1) * u
        ELSE IF q % 2 = 0 THEN q * u ELSE (q + 1) * u

FAdd(a, b) == FRound(a + b, 1)

FDiv(a, n) == FRound(a, n)

\* sum(xs): starts from 0 and adds the items from left to right.
RECURSIVE SumFrom(_, _, _)
SumFrom(acc, xs, i) ==
    IF i > Len(xs) THEN acc ELSE SumFrom(FAdd(acc, xs[i]), xs, i + 1)

sum(xs) == SumFrom(0, xs, 1)

min(xs) == CHOOSE m \in {xs[i] : i \in 1..Len(xs)} :
               \A i \in 1..Len(xs) : m <= xs[i]

max(xs) == CHOOSE m \in {xs[i] : i \in 1..Len(xs)} :
               \A i \in 1..Len(xs) : m >= xs[i]

MeanDivBessel(xs, n) == FDiv(sum(xs), n - 1)

\* sum(times) / num_measurements, sum(overall_times) / len(overall_times)
Mean(xs, n) == FDiv(sum(xs), n)

\* stats.t.interval(0.95, n - 1, loc=avg, scale=std_err): the t quantile and
\* the standard error are real-valued; the interval is kept as the degrees
\* of freedom and the centre it is built from.
ConfidenceInterval(n, avg) == <<n - 1, avg>>

\* ------------------------------------------------------------ output lines
\* One record per print() call; domain is 0 where the line names none.
Line(k, s, d) == [kind |-> k, server |-> s, domain |-> d]

\* print(f"Error resolving domain with {dns_server}: {e}")
ErrorLines(s) == <<Line("error", s, 0)>>

\* The two per-domain summary lines of test_domains.
DomainLines(s, d) == <<Line("domain_header", s, d), Line("domain_values", s, d)>>

\* The four "Overall stats" lines of main.
OverallLines(s) ==
    <<Line("overall_header", s, 0), Line("overall_avg", s, 0),
      Line("overall_min", s, 0), Line("overall_max", s, 0)>>

\* --------------------------------------------------------------- initially
Init ==
    /\ verbose \in BOOLEAN
    /\ pc = "main_for"
    /\ error = "none"
    /\ dns_server = 0
    /\ overall_stats = <<>>
    /\ main_domain_stats = <<>>
    /\ domain = 0
    /\ overall_times = <<>>
    /\ domain_stats = <<>>
    /\ sweep_ret = <<>>
    /\ times = <<>>
    /\ issued = 0
    /\ dns_ret = <<>>
    /\ output = <<>>
    /\ request_log = <<>>
    /\ figures = <<>>
    /\ plot_calls = 0
    /\ samples = <<>>
    /\ agg = <<>>

\* ------------------------------------------------------------------- main
\* for dns_server in dns_providers: ... test_domains(dns_server, ...)
MainFor ==
    /\ pc = "main_for"
    /\ IF dns_server < NumProviders
       THEN /\ dns_server' = dns_server + 1
            /\ overall_times' = <<>>
            /\ domain_stats' = <<>>
            /\ domain' = 0
            /\ pc' = "domains_for"
       ELSE /\ pc' = "plot_results"
            /\ UNCHANGED <<dns_server, overall_times, domain_stats, domain>>
    /\ UNCHANGED <<verbose, error, overall_stats, main_domain_stats, sweep_ret,
                   dnsVars, output, request_log, figures, plot_calls, aggVars>>

\* The body of main's loop after test_domains has returned.
MainAppend ==
    /\ pc = "main_append"
    /\ overall_stats' = Append(overall_stats,
           <<sweep_ret[1], sweep_ret[2], sweep_ret[3], sweep_ret[4]>>)
    /\ main_domain_stats' = Append(main_domain_stats, sweep_ret[5])
    /\ output' = output \o OverallLines(dns_server)
    /\ pc' = "main_for"
    /\ UNCHANGED <<verbose, error, dns_server, sweepVars, dnsVars, request_log,
                   figures, plot_calls, aggVars>>

OverallChart ==
    [kind |-> "overall", provider |-> 0,
     labels |-> [i \in 1..NumProviders |-> i],
     bars |-> [i \in 1..Len(overall_stats) |-> overall_stats[i][1]]]

DetailChart(i) ==
    [kind |-> "detail", provider |-> i,
     labels |-> [j \in 1..Len(main_domain_stats[i]) |-> main_domain_stats[i][j][1]],
     bars |-> [j \in 1..Len(main_domain_stats[i]) |-> main_domain_stats[i][j][2]]]

PlotResultsAlwaysDetailed ==
    /\ pc = "plot_results"
    /\ plot_calls' = plot_calls + 1
    /\ figures' = figures \o <<OverallChart>>
                      \o [i \in 1..NumProviders |-> DetailChart(i)]
    /\ pc' = "done"
    /\ UNCHANGED <<verbose, error, mainVars, sweepVars, dnsVars, output,
                   request_log, aggVars>>

\* plot_results(dns_providers, overall_stats, domain_stats, verbose)
PlotResults ==
    /\ pc = "plot_results"
    /\ plot_calls' = plot_calls + 1
    /\ figures' = figures \o <<OverallChart>>
                      \o (IF verbose
                          THEN [i \in 1..NumProviders |-> DetailChart(i)]
                          ELSE <<>>)
    /\ pc' = "done"
    /\ UNCHANGED <<verbose, error, mainVars, sweepVars, dnsVars, output,
                   request_log, aggVars>>

\* ------------------------------------------------------------ test_domains
DomainsForOneMore ==
    /\ pc = "domains_for"
    /\ IF domain <= NumDomains
       THEN /\ domain' = domain + 1
            /\ times' = <<>>
            /\ issued' = 0
            /\ pc' = "dns_for"
       ELSE /\ pc' = "domains_stats"
            /\ UNCHANGED <<domain, times, issued>>
    /\ UNCHANGED <<verbose, error, mainVars, overall_times, domain_stats,
                   sweep_ret, dns_ret, output, request_log, figures, plot_calls,
                   aggVars>>

\* for domain in domains: ... test_dns(dns_server, domain, num_measurements)
DomainsFor ==
    /\ pc = "domains_for"
    /\ IF domain < NumDomains
       THEN /\ domain' = domain + 1
            /\ times' = <<>>
            /\ issued' = 0
            /\ pc' = "dns_for"
       ELSE /\ pc' = "domains_stats"
            /\ UNCHANGED <<domain, times, issued>>
    /\ UNCHANGED <<verbose, error, mainVars, overall_times, domain_stats,
                   sweep_ret, dns_ret, output, request_log, figures, plot_calls,
                   aggVars>>

\* The DomainStat test_domains builds from the unpacked return value.
DomainStat == <<domain, dns_ret[1], dns_ret[2], dns_ret[3], dns_ret[4]>>

UnpackReturnPrepend ==
    /\ pc = "unpack"
    /\ IF Len(dns_ret) # 4
       THEN /\ error' = "ValueError"
            /\ pc' = "crashed"
            /\ UNCHANGED <<overall_times, domain_stats, output>>
       ELSE /\ IF dns_ret[1] # None
               THEN /\ overall_times' = <<dns_ret[1]>> \o overall_times
                    /\ domain_stats' = <<DomainStat>> \o domain_stats
                    /\ output' = IF verbose
                                  THEN output \o DomainLines(dns_server, domain)
                                  ELSE output
               ELSE UNCHANGED <<overall_times, domain_stats, output>>
            /\ pc' = "domains_for"
            /\ UNCHANGED error
    /\ UNCHANGED <<verbose, mainVars, domain, sweep_ret, dnsVars, request_log,
                   figures, plot_calls, aggVars>>

UnpackReturnAlwaysPrint ==
    /\ pc = "unpack"
    /\ IF Len(dns_ret) # 4
       THEN /\ error' = "ValueError"
            /\ pc' = "crashed"
            /\ UNCHANGED <<overall_times, domain_stats, output>>
       ELSE /\ IF dns_ret[1] # None
               THEN /\ overall_times' = Append(overall_times, dns_ret[1])
                    /\ domain_stats' = Append(domain_stats, DomainStat)
                    /\ output' = output \o DomainLines(dns_server, domain)
               ELSE UNCHANGED <<overall_times, domain_stats, output>>
            /\ pc' = "domains_for"
            /\ UNCHANGED error
    /\ UNCHANGED <<verbose, mainVars, domain, sweep_ret, dnsVars, request_log,
                   figures, plot_calls, aggVars>>

\* avg_time, min_time, max_time, confidence_interval = test_dns(...) and the
\* rest of the loop body: unpacking a tuple of another length than 4 raises
\* ValueError, which nothing catches.
UnpackReturn ==
    /\ pc = "unpack"
    /\ IF Len(dns_ret) # 4
       THEN /\ error' = "ValueError"
            /\ pc' = "crashed"
            /\ UNCHANGED <<overall_times, domain_stats, output>>
       ELSE /\ IF dns_ret[1] # None
               THEN /\ overall_times' = Append(overall_times, dns_ret[1])
                    /\ domain_stats' = Append(domain_stats, DomainStat)
                    /\ output' = IF verbose
                                  THEN output \o DomainLines(dns_server, domain)
                                  ELSE output
               ELSE UNCHANGED <<overall_times, domain_stats, output>>
            /\ pc' = "domains_for"
            /\ UNCHANGED error
    /\ UNCHANGED <<verbose, mainVars, domain, sweep_ret, dnsVars, request_log,
                   figures, plot_calls, aggVars>>

\* The resolver-level aggregation; dividing by len([]) raises
\* ZeroDivisionError, which nothing catches.
DomainsStats ==
    /\ pc = "domains_stats"
    /\ IF Len(overall_times) = 0
       THEN /\ error' = "ZeroDivisionError"
            /\ pc' = "crashed"
            /\ UNCHANGED sweep_ret
       ELSE /\ LET overall_avg == Mean(overall_times, Len(overall_times))
               IN  sweep_ret' = <<overall_avg, min(overall_times),
                                  max(overall_times),
                                  ConfidenceInterval(Len(overall_times), overall_avg),
                                  domain_stats>>
            /\ pc' = "main_append"
            /\ UNCHANGED error
    /\ UNCHANGED <<verbose, mainVars, domain, overall_times, domain_stats,
                   dnsVars, output, request_log, figures, plot_calls, aggVars>>

\* ---------------------------------------------------------------- test_dns
DnsForOneMore ==
    /\ pc = "dns_for"
    /\ IF issued <= num_measurements
       THEN /\ issued' = issued + 1
            /\ request_log' = Append(request_log, <<dns_server, domain>>)
            /\ pc' = "resolve"
       ELSE /\ pc' = "dns_stats"
            /\ UNCHANGED <<issued, request_log>>
    /\ UNCHANGED <<verbose, error, mainVars, sweepVars, times, dns_ret, output,
                   figures, plot_calls, aggVars>>

\* for _ in range(num_measurements): start_time = ...; resolver.resolve(domain)
DnsFor ==
    /\ pc = "dns_for"
    /\ IF issued < num_measurements
       THEN /\ issued' = issued + 1
            /\ request_log' = Append(request_log, <<dns_server, domain>>)
            /\ pc' = "resolve"
       ELSE /\ pc' = "dns_stats"
            /\ UNCHANGED <<issued, request_log>>
    /\ UNCHANGED <<verbose, error, mainVars, sweepVars, times, dns_ret, output,
                   figures, plot_calls, aggVars>>

\* resolve returned: times.append((end_time - start_time) * 1000)
ResolveReturns ==
    /\ pc = "resolve"
    /\ \E t \in Latencies(issued) : times' = Append(times, t)
    /\ pc' = "dns_for"
    /\ UNCHANGED <<verbose, error, mainVars, sweepVars, issued, dns_ret, output,
                   request_log, figures, plot_calls, aggVars>>

ResolveRaisesSkip ==
    /\ pc = "resolve"
    /\ output' = output \o ErrorLines(dns_server)
    /\ pc' = "dns_for"
    /\ UNCHANGED <<verbose, error, mainVars, sweepVars, dnsVars, request_log,
                   figures, plot_calls, aggVars>>

\* resolve raised: except Exception as e: print(...); return None, None, None
ResolveRaises ==
    /\ pc = "resolve"
    /\ output' = output \o ErrorLines(dns_server)
    /\ dns_ret' = <<None, None, None>>
    /\ pc' = "unpack"
    /\ UNCHANGED <<verbose, error, mainVars, sweepVars, times, issued,
                   request_log, figures, plot_calls, aggVars>>

\* The statistics of test_dns after its loop and its return.
DnsStats ==
    /\ pc = "dns_stats"
    /\ LET avg_time == Mean(times, num_measurements)
       IN  dns_ret' = <<avg_time, min(times), max(times),
                        ConfidenceInterval(num_measurements, avg_time)>>
    /\ pc' = "unpack"
    /\ UNCHANGED <<verbose, error, mainVars, sweepVars, times, issued, output,
                   request_log, figures, plot_calls, aggVars>>

Next ==
    \/ MainFor
    \/ MainAppend
    \/ PlotResults
    \/ DomainsFor
    \/ UnpackReturn
    \/ DomainsStats
    \/ DnsFor
    \/ ResolveReturns
    \/ ResolveRaises
    \/ DnsStats

Spec == Init /\ [][Next]_vars

\* Every statement runs to completion and every request returns or raises.
FairSpec == Spec /\ WF_vars(Next)

\* ------------------------------------------ the aggregation taken alone
SeqsOfLen(S, n) == [1..n -> S]

InitAgg ==
    /\ verbose = FALSE
    /\ pc = "aggregate"
    /\ error = "none"
    /\ dns_server = 0
    /\ overall_stats = <<>>
    /\ main_domain_stats = <<>>
    /\ domain = 0
    /\ overall_times = <<>>
    /\ domain_stats = <<>>
    /\ sweep_ret = <<>>
    /\ times = <<>>
    /\ issued = 0
    /\ dns_ret = <<>>
    /\ output = <<>>
    /\ request_log = <<>>
    /\ figures = <<>>
    /\ plot_calls = 0
    /\ samples \in UNION {SeqsOfLen(AggSamples, n) : n \in 2..MaxAggLen}
    /\ agg = <<>>

\* mean, min and max as test_dns and test_domains compute them.
Aggregate ==
    /\ pc = "aggregate"
    /\ agg' = <<Mean(samples, Len(samples)), min(samples), max(samples)>>
    /\ pc' = "aggregated"
    /\ UNCHANGED <<verbose, error, mainVars, sweepVars, dnsVars, output,
                   request_log, figures, plot_calls, samples>>

NextAgg == Aggregate

SpecAgg == InitAgg /\ [][NextAgg]_vars

\* ------------------------------------------------------------- properties
NoData == <<None, None, None>>

\* resolve() calls issued so far for resolver s and domain d.
Requests(s, d) ==
    Cardinality({i \in 1..Len(request_log) : request_log[i] = <<s, d>>})

ErrorCount == Cardinality({i \in 1..Len(output) : output[i].kind = "error"})

InBatch == pc \in {"dns_for", "resolve", "dns_stats", "unpack"}

DomainKinds == {"domain_header", "domain_values"}
OverallKinds == {"overall_header", "overall_avg", "overall_min", "overall_max"}

\* Domains of the current resolver whose batch has run to its end without
\* a failure and has been taken up by test_domains.
Successful ==
    {d \in domains :
        /\ Requests(dns_server, d) = num_measurements
        /\ ~(d = domain /\ (InBatch \/ pc = "crashed"))}

Ids(stats) == [i \in 1..Len(stats) |-> stats[i][1]]

\* C1: once an attempt of a batch has raised, exactly one diagnostic has been
\* printed, the attempts issued for the pair are the samples collected plus
\* the one that raised, the sampling loop is never re-entered (the call has
\* returned the no-data sentinel or the run has ended), no statistics were
\* computed from the samples collected and no DomainStat exists for the pair.
C1_FailFast ==
    ErrorCount > 0 =>
        /\ ErrorCount = 1
        /\ output[Len(output)] = Line("error", dns_server, 0)
        /\ pc \in {"unpack", "crashed"}
        /\ dns_ret = NoData
        /\ issued = Len(times) + 1
        /\ Requests(dns_server, domain) = issued
        /\ request_log[Len(request_log)] = <<dns_server, domain>>
        /\ \A i \in 1..Len(domain_stats) : domain_stats[i][1] # domain

\* The second of three attempts has raised: one sample was already
\* collected and one attempt is never made.
C1_Witness ==
    /\ pc = "unpack"
    /\ dns_ret = NoData
    /\ Len(times) = 1
    /\ issued = 2
    /\ issued < num_measurements

\* C2 (as claimed): when test_dns has returned the no-data sentinel,
\* test_domains takes it without raising and goes on to the next domain.
C2_FailureIsContained ==
    [][(pc = "unpack" /\ dns_ret = NoData)
          => (pc' = "domains_for" /\ error' = "none")]_vars

\* C3 (as claimed): a sweep in which some domain succeeded always returns a
\* ResolverStat, so the run only ever ends inside a sweep that has no
\* successful domain; the returned statistic has one mean per successful
\* domain and degrees of freedom one less than their number.
C3_FailedDomainsExcluded ==
    /\ pc = "crashed" => overall_times = <<>>
    /\ pc = "main_append" =>
          /\ sweep_ret[4][1] = Cardinality(Successful) - 1
          /\ Len(sweep_ret[5]) = Cardinality(Successful)

\* C4: the sampling loop has at most one request outstanding, records one
\* sample per request that returned, and computes the statistics only when
\* num_measurements requests were issued for the pair and as many samples
\* recorded.
C4_OneSamplePerRequest ==
    /\ Len(times) <= issued
    /\ issued <= num_measurements
    /\ InBatch => Requests(dns_server, domain) = issued
    /\ pc = "resolve" => issued = Len(times) + 1
    /\ pc = "dns_for" => issued = Len(times)
    /\ (pc = "dns_stats" \/ (pc = "unpack" /\ Len(dns_ret) = 4)) =>
          /\ Len(times) = num_measurements
          /\ issued = num_measurements

C4_Witness ==
    /\ pc = "unpack"
    /\ Len(dns_ret) = 4
    /\ Len(times) = num_measurements
    /\ min(times) < max(times)

\* C5 (as claimed): the mean of N >= 2 positive samples lies within
\* [min(samples), max(samples)].
C5_MeanWithinMinMax ==
    agg # <<>> => (agg[2] <= agg[1] /\ agg[1] <= agg[3])

\* C5 (amended): the mean of N >= 2 positive samples lies within
\* [min * (1 - N*u), max / (1 - N*u)], where u = 2^-Precision is the unit
\* roundoff of the floating-point format: within [min, max] up to the
\* rounding of the N - 1 additions and the division.
C5_MeanWithinRounding ==
    agg # <<>> =>
        LET n == Len(samples)
        IN  /\ agg[1] * TwoP >= agg[2] * (TwoP - n)
            /\ agg[1] * (TwoP - n) <= agg[3] * TwoP

\* Three samples whose mean is rounded below the least of them.
C5_Witness ==
    /\ pc = "aggregated"
    /\ Len(samples) >= 3
    /\ agg[1] < agg[2]

\* C6 (as claimed): a run that ends inside a sweep with no successful
\* domain ends at the resolver-level aggregation, after the last domain of
\* the list, in a division by zero.
C6_AllFailDividesByZero ==
    (pc = "crashed" /\ overall_times = <<>>) =>
        (error = "ZeroDivisionError" /\ domain = NumDomains)

\* C7: the resolve() calls go through the domains in list order, one batch
\* at a time; domain_stats holds the successful domains of the current
\* resolver in list order, each once, with overall_times their means; and
\* the resolver-level aggregation runs only after the last domain was
\* sampled.
C7_SweepOrder ==
    /\ \A i \in 1..Len(request_log) : \A j \in i..Len(request_log) :
          \/ request_log[i][1] < request_log[j][1]
          \/ /\ request_log[i][1] = request_log[j][1]
             /\ request_log[i][2] <= request_log[j][2]
    /\ {Ids(domain_stats)[i] : i \in 1..Len(domain_stats)} = Successful
    /\ \A i \in 1..Len(domain_stats) : \A j \in 1..Len(domain_stats) :
          i < j => domain_stats[i][1] < domain_stats[j][1]
    /\ overall_times = [i \in 1..Len(domain_stats) |-> domain_stats[i][2]]
    /\ pc \in {"domains_stats", "main_append"} =>
          /\ domain = NumDomains
          /\ \A d \in domains : Requests(dns_server, d) >= 1
    /\ pc = "main_append" => sweep_ret[5] = domain_stats

C7_Witness ==
    /\ pc = "main_append"
    /\ Ids(sweep_ret[5]) = [i \in 1..NumDomains |-> i]
    /\ NumDomains >= 2

\* C8: the printed lines go by resolver in list order; within a resolver
\* the per-domain lines go in domain-list order and before its "Overall
\* stats" lines; per-domain lines are printed only when verbose and only
\* for a domain with a DomainStat, and then for every such domain; the
\* "Overall stats" lines are printed once per swept resolver.
C8_OutputOrder ==
    /\ \A i \in 1..Len(output) : \A j \in i..Len(output) :
          /\ output[i].server <= output[j].server
          /\ output[i].server = output[j].server =>
                /\ ~(output[i].kind \in OverallKinds /\ output[j].kind \in DomainKinds)
                /\ (output[i].kind \in DomainKinds /\ output[j].kind \in DomainKinds)
                      => output[i].domain <= output[j].domain
    /\ ~verbose => \A i \in 1..Len(output) : output[i].kind \notin DomainKinds
    /\ \A i \in 1..Len(output) : output[i].kind \in DomainKinds =>
          LET stats == IF output[i].server = dns_server
                       THEN domain_stats
                       ELSE main_domain_stats[output[i].server]
          IN  \E k \in 1..Len(stats) : stats[k][1] = output[i].domain
    /\ verbose => \A k \in 1..Len(domain_stats) :
          \E i \in 1..Len(output) :
              output[i] = Line("domain_header", dns_server, domain_stats[k][1])
    /\ \A s \in dns_providers :
          Cardinality({i \in 1..Len(output) :
                          output[i] = Line("overall_header", s, 0)})
              = IF s <= Len(overall_stats) THEN 1 ELSE 0

C8_Witness ==
    /\ verbose
    /\ pc = "done"
    /\ Len(output) = NumProviders * (2 * NumDomains + 4)
    /\ NumProviders >= 2

\* C9: plot_results is called at most once, only when every resolver has
\* been swept, and a run that reaches its end has called it once; main has
\* then appended one entry per resolver, in resolver order, to overall_stats
\* and to domain_stats; the call renders one overall chart with a bar per
\* resolver and, only when verbose, one detail chart per resolver.
C9_Reporting ==
    /\ plot_calls = (IF pc = "done" THEN 1 ELSE 0)
    /\ Len(overall_stats) = Len(main_domain_stats)
    /\ Len(overall_stats) =
          IF pc \in {"main_for", "plot_results", "done"}
          THEN dns_server ELSE dns_server - 1
    /\ pc \in {"plot_results", "done"} =>
          /\ dns_server = NumProviders
          /\ Len(overall_stats) = NumProviders
          /\ \A s \in dns_providers :
                Ids(main_domain_stats[s]) = [i \in 1..NumDomains |-> i]
    /\ pc # "done" => figures = <<>>
    /\ pc = "done" =>
          /\ Len(figures) = 1 + (IF verbose THEN NumProviders ELSE 0)
          /\ figures[1].kind = "overall"
          /\ Len(figures[1].bars) = NumProviders
          /\ \A i \in 2..Len(figures) :
                /\ figures[i].kind = "detail"
                /\ figures[i].provider = i - 1

C9_Witness ==
    /\ pc = "done"
    /\ ~verbose
    /\ plot_calls = 1
    /\ Len(figures) = 1
    /\ Len(overall_stats) = NumProviders

\* Statements still to run, at most, from each position.
BatchSteps == 2 * num_measurements + 4
SweepSteps == NumDomains * BatchSteps + 4
AfterSweep == (NumProviders - dns_server) * SweepSteps + 2
AfterBatch == (NumDomains - domain) * BatchSteps + 3 + AfterSweep

Rank ==
    CASE pc = "main_for" -> AfterSweep
      [] pc = "main_append" -> 1 + AfterSweep
      [] pc = "domains_stats" -> 2 + AfterSweep
      [] pc = "domains_for" -> AfterBatch
      [] pc = "unpack" -> 1 + AfterBatch
      [] pc = "dns_stats" -> 2 + AfterBatch
      [] pc = "dns_for" -> 2 * (num_measurements - issued) + 3 + AfterBatch
      [] pc = "resolve" -> 2 * (num_measurements - issued) + 4 + AfterBatch
      [] pc = "plot_results" -> 1
      [] OTHER -> 0

Terminated == pc \in {"done", "crashed"}

\* C10: every step, a request in flight returning or raising included,
\* brings the run strictly closer to its end, where it stops at the report
\* or at an uncaught error, so every run ends; at most NumProviders * NumDomains *
\* num_measurements requests are ever issued, and exactly that many have
\* been issued when the report is reached.
C10_TerminationAndRequestCount ==
    /\ [][Rank' < Rank]_vars
    /\ [](Rank >= 0 /\ (Rank = 0 <=> Terminated))
    /\ [](Len(request_log) <= NumProviders * NumDomains * num_measurements)
    /\ [](pc \in {"plot_results", "done"} =>
             Len(request_log) = NumProviders * NumDomains * num_measurements)

C10_Witness ==
    /\ pc = "done"
    /\ ErrorCount = 0
    /\ Len(request_log) = NumProviders * NumDomains * num_measurements

\* Under fair scheduling every run ends.
Termination == <>Terminated

====
